---------------------------- MODULE Spec2Model ----------------------------
(***************************************************************************)
(* Model of bc_util.py: the embedded bolometric-correction table, the      *)
(* BolometricCorrection engine built over it (three cubic interpolants     *)
(* and the recorded axis ranges), its three query methods, and             *)
(* batch_process, which feeds the lines of a file to them.                 *)
(*                                                                         *)
(* Numbers.  The table's columns are decimals with a fixed number of       *)
(* places; the model keeps them as integers in the column's own unit:      *)
(* B_V in 1/100, logT in 1/10000, BC in 1/1000 and T in kelvin.  A query   *)
(* value is given in the unit of its axis and a returned BC in 1/1000.     *)
(* A float is a record [k, n, d]: k = "fin" is the rational n/d in lowest  *)
(* terms (d > 0); k = "nan", "+inf", "-inf" are the IEEE specials; and     *)
(* k = "spline" (with a further field ax) stands for the value of the      *)
(* spline of axis ax at the point n/d, for a table too long to evaluate    *)
(* exactly here.                                                           *)
(***************************************************************************)
EXTENDS Integers, Sequences, FiniteSets, TLC

VARIABLES
  pc,     \* "start" | "loaded" | "ready" | "failed" | "batch" | "done" | "exited":
          \* position in main() and in batch_process()
  origin, \* "none" | "embedded" | "substituted": where the DataFrame came from
  data,   \* the DataFrame handed to BolometricCorrection(data): a sequence of rows
  eng,    \* the constructed BolometricCorrection object, or NoEngine
  last,   \* the most recent query call and what it returned and printed
  file,   \* the batch file named on the command line: whether it exists, its lines
  lineno, \* batch_process: the number i of the line the loop is at (from 1)
  output, \* batch_process: what it has printed so far
  exit    \* <<s>> once sys.exit(s) has been called, <<>> before

batchVars == <<file, lineno, output, exit>>

vars == <<pc, origin, data, eng, last, file, lineno, output, exit>>

-----------------------------------------------------------------------------
(* Bounds of the model *)

\* longest substituted table
MaxRows == 4
\* longest array passed to one query call
MaxBatch == 2
\* single-value queries are made at the knots of the first MaxKnotQueries rows
\* and of the last row of the engine's table
MaxKnotQueries == 4
\* most lines in a batch file
MaxLines == 2

-----------------------------------------------------------------------------
(* Floats *)

Abs(i) == IF i < 0 THEN -i ELSE i

RECURSIVE GCD(_, _)
GCD(a, b) == IF b = 0 THEN a ELSE GCD(b, a % b)

\* the rational n/d (d # 0) in lowest terms with a positive denominator
Fin(n, d) ==
  LET g == GCD(Abs(n), Abs(d))
      s == IF d < 0 THEN -1 ELSE 1
  IN  [k |-> "fin", n |-> s * (n \div g), d |-> s * (d \div g)]

Num(i) == [k |-> "fin", n |-> i, d |-> 1]
NaN    == [k |-> "nan", n |-> 0, d |-> 1]
PosInf == [k |-> "+inf", n |-> 0, d |-> 1]
NegInf == [k |-> "-inf", n |-> 0, d |-> 1]

IsFinite(a) == a.k = "fin"
NonFinite == {NaN, PosInf, NegInf}

\* IEEE comparison a < b: false whenever either side is NaN
Lt(a, b) ==
  CASE a.k = "nan" \/ b.k = "nan" -> FALSE
    [] a.k = "-inf" -> b.k # "-inf"
    [] b.k = "+inf" -> a.k # "+inf"
    [] a.k = "+inf" \/ b.k = "-inf" -> FALSE
    [] OTHER -> a.n * b.d < b.n * a.d

Gt(a, b) == Lt(b, a)

\* the product of the integer c and the finite value a
RScale(c, a) == Fin(c * a.n, a.d)

-----------------------------------------------------------------------------
(* The table *)

Axes == {"T", "logT", "B_V"}

\* one row of the DataFrame, columns named as in read_csv(names=...)
R(bv, lt, bc, t) == [B_V |-> bv, logT |-> lt, BC |-> bc, T |-> t]

\* the data literal of load_bolometric_data, one R per line of the literal
EmbeddedData ==
  << R(-35, 47538, -4720, 56728), R(-34, 47031, -4506, 50477), R(-33, 46551, -4197, 45196), R(-32, 46098, -3861, 40719),
     R(-31, 45670, -3534, 36897), R(-30, 45266, -3234, 33620), R(-29, 44884, -2966, 30789), R(-28, 44523, -2730, 28333),
     R(-27, 44183, -2523, 26199), R(-26, 43863, -2341, 24338), R(-25, 43561, -2177, 22703), R(-24, 43276, -2028, 21261),
     R(-23, 43008, -1891, 19989), R(-22, 42755, -1762, 18858), R(-21, 42517, -1641, 17852), R(-20, 42294, -1525, 16958),
     R(-19, 42083, -1414, 16154), R(-18, 41885, -1307, 15434), R(-17, 41699, -1205, 14787), R(-16, 41524, -1107, 14203),
     R(-15, 41360, -1013, 13677), R(-14, 41205, -923, 13197), R(-13, 41060, -839, 12764), R(-12, 40923, -759, 12368),
     R(-11, 40795, -684, 12008), R(-10, 40674, -614, 11678), R(-9, 40560, -549, 11376), R(-8, 40453, -488, 11099),
     R(-7, 40353, -432, 10846), R(-6, 40258, -381, 10612), R(-5, 40169, -334, 10396), R(-4, 40084, -290, 10195),
     R(-3, 40005, -252, 10011), R(-2, 39930, -216, 9840), R(-1, 39859, -184, 9680), R(0, 39791, -155, 9530),
     R(1, 39728, -129, 9392), R(2, 39667, -106, 9261), R(3, 39609, -85, 9139), R(4, 39555, -67, 9026),
     R(5, 39502, -50, 8916), R(6, 39452, -36, 8814), R(7, 39404, -24, 8717), R(8, 39358, -13, 8625),
     R(9, 39314, -4, 8538), R(10, 39271, 4, 8454), R(11, 39229, 10, 8373), R(12, 39189, 15, 8296),
     R(13, 39150, 19, 8222), R(14, 39113, 22, 8152), R(15, 39076, 24, 8083), R(16, 39040, 26, 8016),
     R(17, 39004, 28, 7950), R(18, 38969, 29, 7886), R(19, 38935, 31, 7825), R(20, 38902, 32, 7766),
     R(21, 38869, 33, 7707), R(22, 38836, 33, 7648), R(23, 38804, 34, 7592), R(24, 38771, 34, 7535),
     R(25, 38740, 35, 7481), R(26, 38708, 35, 7426), R(27, 38676, 35, 7372), R(28, 38645, 35, 7319),
     R(29, 38614, 35, 7267), R(30, 38583, 34, 7216), R(31, 38552, 34, 7164), R(32, 38521, 33, 7113),
     R(33, 38490, 32, 7063), R(34, 38460, 31, 7014), R(35, 38429, 30, 6964), R(36, 38399, 28, 6916),
     R(37, 38368, 26, 6867), R(38, 38338, 25, 6820), R(39, 38307, 22, 6771), R(40, 38277, 20, 6725),
     R(41, 38247, 18, 6678), R(42, 38217, 15, 6632), R(43, 38187, 12, 6587), R(44, 38157, 9, 6541),
     R(45, 38127, 6, 6496), R(46, 38098, 3, 6453), R(47, 38068, -1, 6409), R(48, 38039, -4, 6366),
     R(49, 38010, -8, 6324), R(50, 37981, -12, 6282), R(51, 37952, -16, 6240), R(52, 37923, -21, 6198),
     R(53, 37895, -25, 6158), R(54, 37866, -30, 6117), R(55, 37838, -35, 6078), R(56, 37811, -39, 6040),
     R(57, 37783, -45, 6002), R(58, 37756, -50, 5964), R(59, 37729, -55, 5927), R(60, 37702, -61, 5891),
     R(61, 37676, -67, 5855), R(62, 37649, -73, 5819), R(63, 37623, -79, 5784), R(64, 37598, -85, 5751),
     R(65, 37572, -91, 5717), R(66, 37547, -98, 5684), R(67, 37523, -104, 5653), R(68, 37498, -111, 5620),
     R(69, 37474, -117, 5589), R(70, 37450, -124, 5559), R(71, 37426, -132, 5528), R(72, 37403, -139, 5499),
     R(73, 37380, -146, 5470), R(74, 37358, -153, 5442), R(75, 37335, -161, 5413), R(76, 37313, -168, 5386),
     R(77, 37291, -176, 5359), R(78, 37270, -184, 5333), R(79, 37249, -192, 5307), R(80, 37228, -200, 5282),
     R(81, 37207, -208, 5256), R(82, 37186, -216, 5231), R(83, 37166, -225, 5207), R(84, 37146, -233, 5183),
     R(85, 37126, -242, 5159), R(86, 37107, -250, 5136), R(87, 37088, -259, 5114), R(88, 37068, -268, 5090),
     R(89, 37049, -277, 5068), R(90, 37031, -285, 5047), R(91, 37012, -295, 5025), R(92, 36994, -304, 5004),
     R(93, 36976, -313, 4984), R(94, 36958, -322, 4963), R(95, 36940, -332, 4943), R(96, 36922, -342, 4922),
     R(97, 36904, -352, 4902), R(98, 36887, -361, 4883), R(99, 36869, -372, 4862), R(100, 36852, -382, 4843),
     R(101, 36835, -392, 4825), R(102, 36818, -403, 4806), R(103, 36800, -414, 4786), R(104, 36783, -426, 4767),
     R(105, 36766, -437, 4748), R(106, 36750, -448, 4731), R(107, 36733, -459, 4713), R(108, 36716, -471, 4694),
     R(109, 36699, -482, 4676), R(110, 36682, -494, 4658), R(111, 36666, -505, 4640), R(112, 36649, -517, 4622),
     R(113, 36633, -528, 4605), R(114, 36616, -540, 4587), R(115, 36599, -552, 4569), R(116, 36583, -564, 4553),
     R(117, 36566, -576, 4535), R(118, 36550, -588, 4518), R(119, 36533, -601, 4500), R(120, 36516, -614, 4483),
     R(121, 36500, -626, 4466), R(122, 36483, -640, 4449), R(123, 36467, -652, 4433), R(124, 36450, -666, 4415),
     R(125, 36434, -679, 4399), R(126, 36417, -694, 4382), R(127, 36401, -707, 4366), R(128, 36384, -722, 4349),
     R(129, 36368, -736, 4333), R(130, 36351, -752, 4316), R(131, 36335, -766, 4300), R(132, 36318, -782, 4283),
     R(133, 36301, -798, 4266), R(134, 36285, -814, 4251), R(135, 36268, -831, 4234), R(136, 36251, -848, 4217),
     R(137, 36235, -865, 4202), R(138, 36218, -883, 4186), R(139, 36201, -901, 4169), R(140, 36184, -920, 4153),
     R(141, 36167, -939, 4137), R(142, 36149, -960, 4120), R(143, 36132, -980, 4103), R(144, 36114, -1002, 4086),
     R(145, 36096, -1024, 4070), R(146, 36078, -1047, 4053), R(147, 36060, -1071, 4036), R(148, 36041, -1096, 4018),
     R(149, 36022, -1122, 4001), R(150, 36002, -1150, 3982), R(151, 35982, -1178, 3964), R(152, 35961, -1209, 3945),
     R(153, 35940, -1241, 3926), R(154, 35918, -1276, 3906), R(155, 35895, -1312, 3885), R(156, 35872, -1350, 3865),
     R(157, 35847, -1393, 3843), R(158, 35822, -1437, 3821), R(159, 35795, -1486, 3797), R(160, 35767, -1539, 3773),
     R(161, 35738, -1595, 3748), R(162, 35707, -1658, 3721), R(163, 35674, -1728, 3693), R(164, 35640, -1802, 3664),
     R(165, 35604, -1885, 3634), R(166, 35565, -1978, 3601), R(167, 35525, -2078, 3568), R(168, 35482, -2191, 3533),
     R(169, 35436, -2318, 3496), R(170, 35387, -2460, 3457), R(171, 35335, -2620, 3415), R(172, 35279, -2803, 3372),
     R(173, 35220, -3007, 3326), R(174, 35157, -3239, 3278), R(175, 35090, -3502, 3228), R(176, 35018, -3805, 3175),
     R(177, 34941, -4152, 3119), R(178, 34860, -4544, 3061), R(179, 34772, -5004, 3000), R(180, 34678, -5535, 2936) >>

\* a sequence given as a function of its index, as a tuple
Tuple(f) == f \o <<>>

\* load_bolometric_data(): read_csv of the literal, four named columns
load_bolometric_data == EmbeddedData

\* Column patterns of the substituted tables, as a function of the row number:
\* ascending, descending, shuffled without repeats, and with repeated values.
\* All values are even, so that odd values fall strictly between knots.
TPatterns == {"shuf", "dup"}
LogTPatterns == {"asc", "dup"}
BVPatterns == {"desc", "shuf", "dup"}

Pat(p, i, n) ==
  CASE p = "asc"  -> 2 * i
    [] p = "desc" -> 2 * (n + 1 - i)
    [] p = "shuf" -> 2 * ((3 * i) % 7)
    [] p = "dup"  -> 2 * ((i + 1) \div 2)

BCPatterns == {"hump", "step"}

BCPat(p, i) ==
  CASE p = "hump" -> ((i * i) % 7) - 2
    [] p = "step" -> 3 * (i \div 2)

\* DataFrames a caller may hand to BolometricCorrection instead of the embedded one
SubstitutedTables ==
  { Tuple([i \in 1..n |-> R(Pat(pb, i, n), Pat(pl, i, n), BCPat(pc_, i), Pat(pt, i, n))]) :
      n \in 0..MaxRows, pb \in BVPatterns, pl \in LogTPatterns,
      pt \in TPatterns, pc_ \in BCPatterns }

Col(d, c) == Tuple([i \in 1..Len(d) |-> d[i][c]])

ColSet(d, c) == {d[i][c] : i \in 1..Len(d)}

HasDuplicates(xs) == \E i, j \in 1..Len(xs) : i < j /\ xs[i] = xs[j]

SetMin(S) == CHOOSE m \in S : \A x \in S : m <= x
SetMax(S) == CHOOSE m \in S : \A x \in S : m >= x

-----------------------------------------------------------------------------
(* pandas / scipy calls made by the constructor *)

\* The permutation that sorts xs ascending, equal values kept in row order:
\* result[r] is the index in xs of the r-th smallest value.
ArgSort(xs) == SortSeq([i \in 1..Len(xs) |-> i], LAMBDA a, b : xs[a] < xs[b])

Reorder(xs, perm) == Tuple([r \in 1..Len(xs) |-> xs[perm[r]]])

\* Variant of sort_values: the rows are left in file order.
sort_values_unsorted(d, c) == d

\* DataFrame.sort_values('T'): rows in ascending T.  (The order pandas gives
\* rows of equal T is not specified; with equal T the constructor raises at
\* its next statement, so no engine ever holds such rows.)
sort_values(d, c) == Reorder(d, ArgSort(Col(d, c)))

\* the three knots other than the i-th of four
Others(i) == CASE i = 1 -> <<2, 3, 4>> [] i = 2 -> <<1, 3, 4>>
               [] i = 3 -> <<1, 2, 4>> [] i = 4 -> <<1, 2, 3>>

Product3(t) == t[1] * t[2] * t[3]

\* make_interp_spline(x, y, k=3) for four knots.  With order + 1 = 4 knots the
\* not-a-knot conditions leave one cubic piece, the cubic through the four
\* points.  It is kept in Lagrange form over the common denominator
\* den = prod_{i<j} (x[j] - x[i]):  coef[i] = y[i] * den / prod_{j # i} (x[i] - x[j]).
SplineDen(x) ==
  (x[2] - x[1]) * (x[3] - x[1]) * (x[4] - x[1]) * (x[3] - x[2]) * (x[4] - x[2]) * (x[4] - x[3])

SplineCoef(x, y) ==
  Tuple([i \in 1..4 |-> y[i] * (SplineDen(x) \div Product3([j \in 1..3 |-> x[i] - x[Others(i)[j]]]))])

\* kind='cubic' is a spline of order 3; interp1d needs order + 1 entries
CubicOrder == 3

\* Variant of MinEntries: the check is off by one.
MinEntries_order == CubicOrder

MinEntries == CubicOrder + 1

\* Variant of interp1d: x is sorted but y is left in the order given
\* (the pairing of x and y is lost unless x arrives ascending).
interp1d_y_unsorted(xs, ys, fill_value) ==
  IF Len(xs) < MinEntries \/ HasDuplicates(xs)
  THEN [ok |-> FALSE, error |-> "ValueError"]
  ELSE LET x == Reorder(xs, ArgSort(xs))
       IN  [ok |-> TRUE, x |-> x, y |-> ys,
            coef |-> IF Len(x) = 4 THEN SplineCoef(x, ys) ELSE <<>>,
            den  |-> IF Len(x) = 4 THEN SplineDen(x) ELSE 1,
            extrapolate |-> (fill_value = "extrapolate")]

\* interp1d(x, y, kind='cubic', bounds_error=False, fill_value='extrapolate'):
\* x and y are sorted together by x; fewer than order + 1 entries, or a
\* repeated x, raise ValueError.
interp1d(xs, ys, fill_value) ==
  IF Len(xs) < MinEntries \/ HasDuplicates(xs)
  THEN [ok |-> FALSE, error |-> "ValueError"]
  ELSE LET ind == ArgSort(xs)
           x   == Reorder(xs, ind)
           y   == Reorder(ys, ind)
       IN  [ok |-> TRUE, x |-> x, y |-> y,
            coef |-> IF Len(x) = 4 THEN SplineCoef(x, y) ELSE <<>>,
            den  |-> IF Len(x) = 4 THEN SplineDen(x) ELSE 1,
            extrapolate |-> (fill_value = "extrapolate")]

\* Variant of FillValue: the interpolants do not extrapolate.
FillValue_nan == "nan"

\* the fill_value argument of the three interp1d calls
FillValue == "extrapolate"

NoEngine == [built |-> FALSE]

\* BolometricCorrection.__init__(data)
BolometricCorrection(d) ==
  LET sd    == sort_values(d, "T")
      fT    == interp1d(Col(sd, "T"), Col(sd, "BC"), FillValue)
      flogT == interp1d(Col(sd, "logT"), Col(sd, "BC"), FillValue)
      fBV   == interp1d(Col(sd, "B_V"), Col(sd, "BC"), FillValue)
  IN  IF ~(fT.ok /\ flogT.ok /\ fBV.ok)
      THEN [built |-> FALSE, error |-> "ValueError"]
      ELSE [built |-> TRUE, data |-> sd,
            bc_from_T |-> fT, bc_from_logT |-> flogT, bc_from_BV |-> fBV,
            T_min |-> SetMin(ColSet(sd, "T")), T_max |-> SetMax(ColSet(sd, "T")),
            logT_min |-> SetMin(ColSet(sd, "logT")), logT_max |-> SetMax(ColSet(sd, "logT")),
            BV_min |-> SetMin(ColSet(sd, "B_V")), BV_max |-> SetMax(ColSet(sd, "B_V"))]

-----------------------------------------------------------------------------
(* Evaluating an interpolant *)

\* The spline of f at v when f has four knots: the stored cubic
\* sum_i coef[i] * prod_{j # i} (v - x[j]) / den, in and out of range alike.
Cubic4(f, v) ==
  LET term(i) == f.coef[i] * Product3([j \in 1..3 |-> v.n - f.x[Others(i)[j]] * v.d])
  IN  Fin(term(1) + term(2) + term(3) + term(4), f.den * v.d * v.d * v.d)

\* The spline of interpolant f at v.  A non-finite v gives NaN.  A spline
\* through more than four knots passes through each knot (the collocation
\* equations make_interp_spline solves); between and beyond the knots its
\* value is left symbolic.
SplineValue(f, v, ax) ==
  IF ~IsFinite(v) THEN NaN
  ELSE IF Len(f.x) = 4 THEN Cubic4(f, v)
  ELSE IF v.d = 1 /\ \E i \in 1..Len(f.x) : f.x[i] = v.n
       THEN Num(f.y[CHOOSE i \in 1..Len(f.x) : f.x[i] = v.n])
       ELSE [k |-> "spline", n |-> v.n, d |-> v.d, ax |-> ax]

\* Variant of interp1d_call: outside the knots the value of the nearest end
\* knot is returned (fill_value=(y[0], y[-1])).
interp1d_call_edge_fill(f, v, ax) ==
  IF IsFinite(v) /\ Lt(v, Num(f.x[1])) THEN Num(f.y[1])
  ELSE IF IsFinite(v) /\ Gt(v, Num(f.x[Len(f.x)])) THEN Num(f.y[Len(f.y)])
  ELSE SplineValue(f, v, ax)

\* interp1d.__call__ with bounds_error=False: without 'extrapolate' a point
\* outside [x[0], x[-1]] gets the fill value NaN, with it the spline's value
interp1d_call(f, v, ax) ==
  IF ~f.extrapolate /\ (Lt(v, Num(f.x[1])) \/ Gt(v, Num(f.x[Len(f.x)])))
  THEN NaN
  ELSE SplineValue(f, v, ax)

\* Variant of OutOfRange: the ends of the range count as outside.
OutOfRange_inclusive(vals, lo, hi) ==
  (\E i \in 1..Len(vals) : ~Gt(vals[i], Num(lo))) \/ (\E i \in 1..Len(vals) : ~Lt(vals[i], Num(hi)))

\* Variant of OutOfRange: np.all in place of np.any.
OutOfRange_all(vals, lo, hi) ==
  (\A i \in 1..Len(vals) : Lt(vals[i], Num(lo))) \/ (\A i \in 1..Len(vals) : Gt(vals[i], Num(hi)))

\* np.any(T < lo) or np.any(T > hi)
OutOfRange(vals, lo, hi) ==
  (\E i \in 1..Len(vals) : Lt(vals[i], Num(lo))) \/ (\E i \in 1..Len(vals) : Gt(vals[i], Num(hi)))

\* What a query call leaves behind: the object, the exception raised (the
\* methods have no raise statement and evaluating an interpolant raises for no
\* float), the returned array, the value of the range test, and the number of
\* warnings printed (a warning is the two print lines of the if-body).
Outcome(e, f, ax, vals, verbose, lo, hi) ==
  [self         |-> e,
   raised       |-> "none",
   result       |-> Tuple([i \in 1..Len(vals) |-> interp1d_call(f, vals[i], ax)]),
   extrapolated |-> OutOfRange(vals, lo, hi),
   warnings     |-> IF verbose /\ OutOfRange(vals, lo, hi) THEN 1 ELSE 0]

\* Variant of get_BC_from_T: the recorded range grows to cover the values seen.
get_BC_from_T_widening(e, vals, verbose) ==
  Outcome([e EXCEPT !.T_max = IF OutOfRange(vals, e.T_min, e.T_max) THEN @ + 1 ELSE @],
          e.bc_from_T, "T", vals, verbose, e.T_min, e.T_max)

get_BC_from_T(e, vals, verbose) ==
  Outcome(e, e.bc_from_T, "T", vals, verbose, e.T_min, e.T_max)

\* Variant of get_BC_from_logT: the method evaluates the temperature interpolant.
get_BC_from_logT_wrong_interpolant(e, vals, verbose) ==
  Outcome(e, e.bc_from_T, "logT", vals, verbose, e.logT_min, e.logT_max)

get_BC_from_logT(e, vals, verbose) ==
  Outcome(e, e.bc_from_logT, "logT", vals, verbose, e.logT_min, e.logT_max)

get_BC_from_BV(e, vals, verbose) ==
  Outcome(e, e.bc_from_BV, "B_V", vals, verbose, e.BV_min, e.BV_max)

get_BC(e, ax, vals, verbose) ==
  CASE ax = "T"    -> get_BC_from_T(e, vals, verbose)
    [] ax = "logT" -> get_BC_from_logT(e, vals, verbose)
    [] ax = "B_V"  -> get_BC_from_BV(e, vals, verbose)

-----------------------------------------------------------------------------
(* Query inputs *)

AxisMin(e, ax) == CASE ax = "T" -> e.T_min [] ax = "logT" -> e.logT_min [] ax = "B_V" -> e.BV_min
AxisMax(e, ax) == CASE ax = "T" -> e.T_max [] ax = "logT" -> e.logT_max [] ax = "B_V" -> e.BV_max

\* values at, just inside and just outside the ends of the axis, and the specials
Probes(e, ax) ==
  {Num(AxisMin(e, ax) - 1), Num(AxisMin(e, ax)), Num(AxisMin(e, ax) + 1),
   Num(AxisMax(e, ax)), Num(AxisMax(e, ax) + 1)} \cup NonFinite

KnotRows(e) == {i \in 1..Len(e.data) : i <= MaxKnotQueries \/ i = Len(e.data)}

SingleValues(e, ax) == {Num(e.data[i][ax]) : i \in KnotRows(e)} \cup Probes(e, ax)

\* elements of array queries: below the range, at its lower end, above it
BatchValues(e, ax) == {Num(AxisMin(e, ax) - 1), Num(AxisMin(e, ax)), Num(AxisMax(e, ax) + 1)}

SeqsUpTo(S, n) == UNION {{Tuple(s) : s \in [1..m -> S]} : m \in 0..n}

-----------------------------------------------------------------------------
(* The state machine *)

NoQuery == [called |-> FALSE]

\* no batch file has been named yet
NoFile == [exists |-> FALSE, lines |-> <<>>]

Init ==
  /\ pc = "start"
  /\ origin = "none"
  /\ data = <<>>
  /\ eng = NoEngine
  /\ last = NoQuery
  /\ file = NoFile
  /\ lineno = 0
  /\ output = <<>>
  /\ exit = <<>>

\* main(): data = load_bolometric_data()
LoadEmbedded ==
  /\ pc = "start"
  /\ data' = load_bolometric_data
  /\ origin' = "embedded"
  /\ pc' = "loaded"
  /\ UNCHANGED <<eng, last>>
  /\ UNCHANGED batchVars

\* a caller of the class hands it another DataFrame than the embedded one
Substitute ==
  /\ pc = "start"
  /\ \E tbl \in SubstitutedTables : data' = tbl
  /\ origin' = "substituted"
  /\ pc' = "loaded"
  /\ UNCHANGED <<eng, last>>
  /\ UNCHANGED batchVars

\* bc_util = BolometricCorrection(data); an exception leaves no object (eng
\* then records the exception) and ends the program
Construct ==
  /\ pc = "loaded"
  /\ \E e \in {BolometricCorrection(data)} :
       /\ eng' = e
       /\ pc' = IF e.built THEN "ready" ELSE "failed"
  /\ UNCHANGED <<origin, data, last>>
  /\ UNCHANGED batchVars

Call(ax, batch, vals, verbose) ==
  \E o \in {get_BC(eng, ax, vals, verbose)} :
      /\ eng' = o.self
      /\ last' = [called |-> TRUE, axis |-> ax, batch |-> batch, values |-> vals,
                  verbose |-> verbose, raised |-> o.raised, result |-> o.result,
                  extrapolated |-> o.extrapolated, warnings |-> o.warnings]
      /\ UNCHANGED <<pc, origin, data>>
      /\ UNCHANGED batchVars

\* a query with one value (a 0-d array after np.asarray)
QuerySingle ==
  /\ pc = "ready"
  /\ \E ax \in Axes, verbose \in BOOLEAN :
       \E v \in SingleValues(eng, ax) : Call(ax, FALSE, <<v>>, verbose)

\* a query with an array of values
QueryBatch ==
  /\ pc = "ready"
  /\ \E ax \in Axes, verbose \in BOOLEAN :
       \E vals \in SeqsUpTo(BatchValues(eng, ax), MaxBatch) : Call(ax, TRUE, vals, verbose)

Next == LoadEmbedded \/ Substitute \/ Construct \/ QuerySingle \/ QueryBatch

Spec == Init /\ [][Next]_vars

-----------------------------------------------------------------------------
(* batch_process *)

\* A line of the file is kept as strip() and split() leave it: the sequence
\* of its whitespace-separated fields, none for a blank line.  These are the
\* lines a batch file is made of here.
BatchLineKinds ==
  { <<>>,                          \* blank
    <<"#", "temp", "9530">>,       \* comment
    <<"temp">>,                    \* one field
    <<"temp", "9530">>,            \* T at a knot of the embedded table
    <<"T", "9530">>,               \* the keyword in upper case
    <<"logt", "3.9791">>,          \* log T at a knot
    <<"bv", "0.0", "extra">>,      \* B-V at a knot, and a third field
    <<"b-v", "2.5">>,              \* B-V above the table's range
    <<"temp", "nan">>,             \* float() accepts "nan"
    <<"plot", "9530">>,            \* unknown keyword
    <<"temp", "abc">>,             \* not a number
    <<"plot", "abc">> }            \* unknown keyword and not a number

BatchFiles == SeqsUpTo(BatchLineKinds, MaxLines)

\* line.startswith('#'), for a line that is not blank
StartsWithHash(line) == line[1] \in {"#"}

\* str.lower() on the first fields used here
Lower(tok) == CASE tok = "T" -> "t" [] OTHER -> tok

\* float(tok): the value, or ValueError
ParseFloat(tok) ==
  CASE tok = "9530"   -> [ok |-> TRUE, value |-> Num(9530)]
    [] tok = "3.9791" -> [ok |-> TRUE, value |-> Fin(39791, 10000)]
    [] tok = "0.0"    -> [ok |-> TRUE, value |-> Num(0)]
    [] tok = "2.5"    -> [ok |-> TRUE, value |-> Fin(5, 2)]
    [] tok = "nan"    -> [ok |-> TRUE, value |-> NaN]
    [] OTHER          -> [ok |-> FALSE, error |-> "ValueError"]

TempKeywords == {"temp", "t", "temperature"}
LogTKeywords == {"logt", "log", "logtemp"}
BVKeywords   == {"bv", "color", "b-v"}

\* a float in the unit the model keeps the axis in (see Numbers above)
AxisScale(ax) == CASE ax = "T" -> 1 [] ax = "logT" -> 10000 [] ax = "B_V" -> 100

InAxisUnits(ax, v) == IF IsFinite(v) THEN RScale(AxisScale(ax), v) ELSE v

\* what print() adds to the output
ErrorLine(i, what) == [kind |-> "error", line |-> i, what |-> what]
ResultLine(ax, value, bc) == [kind |-> "result", axis |-> ax, value |-> value, bc |-> bc]
WarningLines(ax, n) == Tuple([k \in 1..n |-> [kind |-> "warning", axis |-> ax]])
Banner == <<[kind |-> "banner", text |-> "Processing batch file"],
            [kind |-> "banner", text |-> "rule"]>>

BatchVerbose == FALSE

\* bc = bc_util.get_BC_from_...(value, verbose=False); print(result).  A
\* ValueError from the call is caught by the loop's handler, any other
\* exception leaves the loop.
Report(e, i, ax, value) ==
  LET o == get_BC(e, ax, <<InAxisUnits(ax, value)>>, BatchVerbose)
  IN  IF o.raised = "none"
      THEN [self |-> o.self, raised |-> "none",
            printed |-> WarningLines(ax, o.warnings) \o <<ResultLine(ax, value, o.result[1])>>]
      ELSE IF o.raised = "ValueError"
      THEN [self |-> o.self, raised |-> "none",
            printed |-> WarningLines(ax, o.warnings) \o <<ErrorLine(i, "Invalid value")>>]
      ELSE [self |-> o.self, raised |-> o.raised, printed |-> WarningLines(ax, o.warnings)]

\* Variant of ProcessLine: the `continue` after "Invalid format" is missing,
\* so parts[1] raises IndexError and the loop is left.
ProcessLine_no_continue(e, i, line) ==
  IF line = <<>> \/ StartsWithHash(line)
  THEN [self |-> e, raised |-> "none", printed |-> <<>>]
  ELSE IF Len(line) < 2
  THEN [self |-> e, raised |-> "IndexError", printed |-> <<ErrorLine(i, "Invalid format")>>]
  ELSE LET cmd == Lower(line[1])
           p   == ParseFloat(line[2])
       IN  IF ~p.ok THEN [self |-> e, raised |-> "none", printed |-> <<ErrorLine(i, "Invalid value")>>]
           ELSE IF cmd \in TempKeywords THEN Report(e, i, "T", p.value)
           ELSE IF cmd \in LogTKeywords THEN Report(e, i, "logT", p.value)
           ELSE IF cmd \in BVKeywords THEN Report(e, i, "B_V", p.value)
           ELSE [self |-> e, raised |-> "none", printed |-> <<ErrorLine(i, "Unknown command")>>]

\* the body of the loop for line number i
ProcessLine(e, i, line) ==
  IF line = <<>> \/ StartsWithHash(line)
  THEN [self |-> e, raised |-> "none", printed |-> <<>>]
  ELSE IF Len(line) < 2
  THEN [self |-> e, raised |-> "none", printed |-> <<ErrorLine(i, "Invalid format")>>]
  ELSE LET cmd == Lower(line[1])
           p   == ParseFloat(line[2])
       IN  IF ~p.ok THEN [self |-> e, raised |-> "none", printed |-> <<ErrorLine(i, "Invalid value")>>]
           ELSE IF cmd \in TempKeywords THEN Report(e, i, "T", p.value)
           ELSE IF cmd \in LogTKeywords THEN Report(e, i, "logT", p.value)
           ELSE IF cmd \in BVKeywords THEN Report(e, i, "B_V", p.value)
           ELSE [self |-> e, raised |-> "none", printed |-> <<ErrorLine(i, "Unknown command")>>]

\* open(filename) and f.readlines(), then the two header lines; a missing
\* file prints an error and exits with status 1
BatchOpen ==
  /\ pc = "ready"
  /\ \E exists \in BOOLEAN :
       IF exists
       THEN \E ls \in BatchFiles :
              /\ file' = [exists |-> TRUE, lines |-> ls]
              /\ lineno' = 1
              /\ output' = Banner
              /\ pc' = "batch"
              /\ UNCHANGED exit
       ELSE /\ file' = [exists |-> FALSE, lines |-> <<>>]
            /\ output' = <<[kind |-> "fatal", what |-> "not found"]>>
            /\ exit' = <<1>>
            /\ pc' = "exited"
            /\ UNCHANGED lineno
  /\ UNCHANGED <<origin, data, eng, last>>

\* one turn of `for i, line in enumerate(lines, 1)`; an exception that
\* leaves the loop prints "Error processing file" and exits with status 1
BatchLine ==
  /\ pc = "batch"
  /\ lineno <= Len(file.lines)
  /\ \E r \in {ProcessLine(eng, lineno, file.lines[lineno])} :
       /\ eng' = r.self
       /\ IF r.raised = "none"
          THEN /\ output' = output \o r.printed
               /\ lineno' = lineno + 1
               /\ UNCHANGED <<pc, exit>>
          ELSE /\ output' = output \o r.printed \o <<[kind |-> "fatal", what |-> r.raised]>>
               /\ exit' = <<1>>
               /\ pc' = "exited"
               /\ UNCHANGED lineno
  /\ UNCHANGED <<origin, data, last, file>>

\* the loop is over; batch_process returns to main()
BatchEnd ==
  /\ pc = "batch"
  /\ lineno > Len(file.lines)
  /\ pc' = "done"
  /\ UNCHANGED <<origin, data, eng, last, file, lineno, output, exit>>

\* main() run with --batch alone
BatchNext == LoadEmbedded \/ Construct \/ BatchOpen \/ BatchLine \/ BatchEnd

BatchSpec == Init /\ [][BatchNext]_vars

-----------------------------------------------------------------------------
(* Properties *)

Ready == pc = "ready"

\* the interpolant a query on axis ax is meant to evaluate
AxisInterpolant(e, ax) ==
  CASE ax = "T" -> e.bc_from_T [] ax = "logT" -> e.bc_from_logT [] ax = "B_V" -> e.bc_from_BV

\* v < lo or v > hi for a query value v (NaN compares false with everything)
Outside(v, lo, hi) ==
  CASE v.k = "fin"  -> v.n < lo * v.d \/ v.n > hi * v.d
    [] v.k = "+inf" -> TRUE
    [] v.k = "-inf" -> TRUE
    [] v.k = "nan"  -> FALSE

LastOutside(i) == Outside(last.values[i], AxisMin(eng, last.axis), AxisMax(eng, last.axis))

\* a returned element is a number: exact, or the symbolic value of a spline
IsNumeric(r) == r.k \in {"fin", "spline"}

StrictlyAscending(xs) == \A i \in 1..(Len(xs) - 1) : xs[i] < xs[i + 1]
StrictlyDescending(xs) == \A i \in 1..(Len(xs) - 1) : xs[i] > xs[i + 1]

\* C1: on each axis a single query value v is classified as extrapolated
\* exactly when v < min or v > max of the axis's recorded bounds; a value
\* with min <= v <= max, the two ends included, is not.  (The classification
\* is the value of the range test; it is printed as a warning when verbose.)
C1_BoundaryClassification ==
  (Ready /\ last.called /\ ~last.batch) =>
     /\ last.extrapolated <=> LastOutside(1)
     /\ last.verbose => (last.warnings = 1 <=> LastOutside(1))

\* a verbose query exactly at the upper end of the axis: no warning
C1_Witness ==
  /\ Ready /\ last.called /\ ~last.batch /\ last.verbose
  /\ last.values[1] = Num(AxisMax(eng, last.axis))
  /\ ~last.extrapolated /\ last.warnings = 0

\* C2: for every finite query value, in or out of range, verbose or not, the
\* query returns the number its axis's interpolant has at that value; the
\* range test and the verbose flag decide only whether a warning is printed.
C2_ExtrapolationNeverBlocks ==
  (Ready /\ last.called) =>
     /\ last.raised = "none"
     /\ Len(last.result) = Len(last.values)
     /\ \A i \in 1..Len(last.values) :
          IsFinite(last.values[i]) =>
            /\ IsNumeric(last.result[i])
            /\ last.result[i] = SplineValue(AxisInterpolant(eng, last.axis), last.values[i], last.axis)
     /\ last.warnings = IF last.verbose /\ (\E i \in 1..Len(last.values) : LastOutside(i))
                        THEN 1 ELSE 0

\* a quiet query above the range of a four-row table returns an exact number
C2_Witness ==
  /\ Ready /\ last.called /\ ~last.batch /\ ~last.verbose
  /\ last.values[1] = Num(AxisMax(eng, last.axis) + 1)
  /\ last.result[1].k = "fin" /\ last.warnings = 0

\* C3: a query whose value is NaN, +inf or -inf fails with an error and
\* returns no numeric result.
C3_NonFiniteRejected ==
  (Ready /\ last.called /\ ~last.batch /\ ~IsFinite(last.values[1])) =>
     /\ last.raised # "none"
     /\ last.result = <<>>

C6_Batch ==
  (Ready /\ last.called /\ last.batch) =>
     /\ Len(last.result) = Len(last.values)
     /\ \A i \in 1..Len(last.values) :
          last.result[i] = get_BC(eng, last.axis, <<last.values[i]>>, last.verbose).result[1]
     /\ last.extrapolated <=> (\E i \in 1..Len(last.values) : LastOutside(i))
     /\ last.warnings = IF last.verbose /\ last.extrapolated THEN 1 ELSE 0

\* a verbose array query with one element inside and one outside: one warning
C6_Witness ==
  /\ Ready /\ last.called /\ last.batch /\ last.verbose
  /\ Len(last.values) = 2
  /\ ~LastOutside(1) /\ LastOutside(2)
  /\ last.extrapolated /\ last.warnings = 1

\* what the single-value query on axis ax returns for the value x
Answer(e, ax, x) == get_BC(e, ax, <<Num(x)>>, TRUE)

\* the state right after construction, before any query
FreshlyBuilt == Ready /\ ~last.called

\* C7: for every row of the engine's table (the embedded table included) and
\* each axis, the query at the row's own axis value returns the row's BC and
\* is not classified as extrapolated; no two rows of the table share a value
\* on any axis.  (Stated of every row of the engine as constructed, and of
\* every single-value query made later at a row's axis value.)
C7_ExactReproduction ==
  /\ Ready => \A ax \in Axes : ~HasDuplicates(Col(eng.data, ax))
  /\ FreshlyBuilt =>
       \A i \in 1..Len(eng.data) : \A ax \in Axes :
          \A a \in {Answer(eng, ax, eng.data[i][ax])} :
             a.result = <<Num(eng.data[i].BC)>> /\ ~a.extrapolated /\ a.warnings = 0
  /\ (Ready /\ last.called /\ ~last.batch) =>
       \A i \in 1..Len(eng.data) :
          last.values[1] = Num(eng.data[i][last.axis]) =>
            (last.result[1] = Num(eng.data[i].BC) /\ ~last.extrapolated)

\* the embedded table queried by colour at B-V = 1.78: BC = -4.544
C7_Witness ==
  /\ Ready /\ origin = "embedded" /\ last.called /\ ~last.batch
  /\ last.axis = "B_V" /\ last.values = <<Num(178)>>
  /\ last.result = <<Num(-4544)>> /\ ~last.extrapolated

\* C8: for every row of the table the queries by temperature, by
\* log-temperature and by B-V, each at the row's own value, return the same
\* BC.  (Stated of every row of the engine as constructed, and of every
\* single-value query made later at a row's axis value.)
C8_CrossAxis ==
  /\ FreshlyBuilt =>
       \A i \in 1..Len(eng.data) :
          \A t \in {Answer(eng, "T", eng.data[i].T).result} :
             /\ t = Answer(eng, "logT", eng.data[i].logT).result
             /\ t = Answer(eng, "B_V", eng.data[i].B_V).result
  /\ (Ready /\ last.called /\ ~last.batch) =>
       \A i \in 1..Len(eng.data) :
          last.values[1] = Num(eng.data[i][last.axis]) =>
            \A ax \in Axes : last.result = Answer(eng, ax, eng.data[i][ax]).result

\* a four-row table whose columns run in different orders, queried by log(T)
\* at a row's own value
C8_Witness ==
  /\ Ready /\ origin = "substituted" /\ last.called /\ ~last.batch
  /\ last.axis = "logT"
  /\ ~StrictlyAscending(Col(eng.data, "logT"))
  /\ \E i \in 1..Len(eng.data) :
       /\ last.values = <<Num(eng.data[i].logT)>>
       /\ last.result = Answer(eng, "T", eng.data[i].T).result

\* C9: after construction the engine's table is strictly ascending by
\* temperature; for the embedded table that row order is also strictly
\* ascending by log-temperature and strictly descending by B-V.
C9_Sorted ==
  Ready =>
     /\ StrictlyAscending(Col(eng.data, "T"))
     /\ origin = "embedded" =>
          /\ StrictlyAscending(Col(eng.data, "logT"))
          /\ StrictlyDescending(Col(eng.data, "B_V"))

\* the embedded table, hottest row first in the file, coolest row first in the engine
C9_Witness ==
  /\ Ready /\ origin = "embedded"
  /\ StrictlyDescending(Col(data, "T"))
  /\ eng.data[1].T = 2936 /\ eng.data[Len(eng.data)].T = 56728

BoundsAreTableExtremes ==
  Ready =>
     /\ eng.T_min = SetMin(ColSet(eng.data, "T")) /\ eng.T_max = SetMax(ColSet(eng.data, "T"))
     /\ eng.logT_min = SetMin(ColSet(eng.data, "logT")) /\ eng.logT_max = SetMax(ColSet(eng.data, "logT"))
     /\ eng.BV_min = SetMin(ColSet(eng.data, "B_V")) /\ eng.BV_max = SetMax(ColSet(eng.data, "B_V"))

\* a query step leaves the engine as it was, and a query repeated with the
\* same axis and values returns the same result
QueryKeepsEngine ==
  Ready =>
     /\ eng' = eng
     /\ (last.called /\ last'.called /\ last'.axis = last.axis /\ last'.values = last.values)
          => last'.result = last.result

\* C10: in every state after construction, whatever queries were made, the
\* engine's table and interpolants are as constructed and each axis's
\* recorded bounds are the minimum and maximum of that axis's column; a
\* repeated query returns the same result.
C10_Immutable == [][QueryKeepsEngine]_vars /\ []BoundsAreTableExtremes

\* after a verbose query above the temperature range the bounds still are the table's
C10_Witness ==
  /\ Ready /\ last.called /\ last.axis = "T" /\ last.extrapolated /\ last.warnings = 1
  /\ eng.T_max = SetMax(ColSet(data, "T")) /\ eng.T_min = SetMin(ColSet(data, "T"))

\* exact sums of finite values, for the differences below
RAdd(a, b) ==
  LET g == GCD(a.d, b.d)
  IN  Fin(a.n * (b.d \div g) + b.n * (a.d \div g), a.d * (b.d \div g))

\* the BC the engine returns on axis ax at the integer abscissa x
S(ax, x) == Answer(eng, ax, x).result[1]

\* S(x-1) - 2 S(x) + S(x+1).  Where the three points lie on one cubic
\* piece this is exactly the second derivative of that piece at x.
SecondDifference(ax, x) ==
  RAdd(RAdd(S(ax, x - 1), RScale(-2, S(ax, x))), S(ax, x + 1))

\* S(x-2) - 4 S(x-1) + 6 S(x) - 4 S(x+1) + S(x+2): zero exactly when the five
\* values lie on one cubic.  For two cubic pieces P, Q joined at x with equal
\* value, first and second derivative, Q = P + c (v - x)^3 and the sum is 4c,
\* the jump of the third derivative up to a factor.
FourthDifference(ax, x) ==
  RAdd(RAdd(RAdd(RAdd(S(ax, x - 2), RScale(-4, S(ax, x - 1))), RScale(6, S(ax, x))),
            RScale(-4, S(ax, x + 1))), S(ax, x + 2))

\* an engine right after its construction from a table of four rows; the
\* knots of every such table are at least 2 apart on each axis
FourKnots == FreshlyBuilt /\ Len(eng.data) = 4

Knot(ax, i) == AxisInterpolant(eng, ax).x[i]

ThroughEveryPoint(ax) ==
  \A i \in 1..4 : S(ax, Knot(ax, i)) = Num(AxisInterpolant(eng, ax).y[i])

\* the pieces left and right of the second and of the second-last knot are
\* the same cubic
NotAKnotEnds(ax) ==
  FourthDifference(ax, Knot(ax, 2)) = Num(0) /\ FourthDifference(ax, Knot(ax, 3)) = Num(0)

\* the second derivative vanishes at the first and the last knot
NaturalEnds(ax) ==
  SecondDifference(ax, Knot(ax, 1)) = Num(0) /\ SecondDifference(ax, Knot(ax, 4)) = Num(0)

\* the values outside the knots lie on the cubic of the nearest end interval
BoundaryCubicOutside(ax) ==
  /\ FourthDifference(ax, Knot(ax, 1)) = Num(0)
  /\ FourthDifference(ax, Knot(ax, 1) - 1) = Num(0)
  /\ FourthDifference(ax, Knot(ax, 4)) = Num(0)
  /\ FourthDifference(ax, Knot(ax, 4) + 1) = Num(0)

\* C11 as stated: the interpolant of each axis is a natural cubic spline: it
\* passes through every tabulated point, its second derivative is zero at the
\* two end knots, and outside the knots it continues the boundary cubic.
C11_NaturalCubicSpline ==
  FourKnots =>
    \A ax \in Axes : ThroughEveryPoint(ax) /\ NaturalEnds(ax) /\ BoundaryCubicOutside(ax)

\* C11 amended: the interpolant of each axis is a not-a-knot cubic spline: it
\* passes through every tabulated point, the cubic pieces on both sides of the
\* second and of the second-last knot are one cubic (so value and all
\* derivatives are continuous at the interior knots of a four-row table), and
\* outside the knots it continues the boundary cubic, with no constant or
\* linear rule.  Checked for engines built from four rows.
C11_NotAKnotCubicSpline ==
  FourKnots =>
    \A ax \in Axes : ThroughEveryPoint(ax) /\ NotAKnotEnds(ax) /\ BoundaryCubicOutside(ax)

\* an engine built from four rows whose BC(T) curve bends at its first knot
\* and takes a value below the range that differs from the end knot's BC
C11_Witness ==
  /\ FourKnots
  /\ SecondDifference("T", Knot("T", 1)) # Num(0)
  /\ S("T", Knot("T", 1) - 1) # Num(AxisInterpolant(eng, "T").y[1])

\* the classes of lines the claim speaks of
Blank(line) == line = <<>>
Comment(line) == line # <<>> /\ StartsWithHash(line)
Invalid(line) ==
  /\ ~Blank(line) /\ ~Comment(line)
  /\ \/ Len(line) < 2
     \/ Lower(line[1]) \notin (TempKeywords \cup LogTKeywords \cup BVKeywords)
     \/ ~ParseFloat(line[2]).ok
Valid(line) == ~Blank(line) /\ ~Comment(line) /\ ~Invalid(line)

KeywordAxis(cmd) ==
  CASE cmd \in TempKeywords -> "T" [] cmd \in LogTKeywords -> "logT" [] cmd \in BVKeywords -> "B_V"

\* what line number i is to add to the output: nothing, one error naming i,
\* or one result line with the value of the quiet query
ExpectedOf(i, line) ==
  IF Blank(line) \/ Comment(line) THEN <<>>
  ELSE IF Invalid(line) THEN <<[kind |-> "error", line |-> i]>>
  ELSE LET ax == KeywordAxis(Lower(line[1]))
           v  == ParseFloat(line[2]).value
       IN  <<ResultLine(ax, v, get_BC(eng, ax, <<InAxisUnits(ax, v)>>, FALSE).result[1])>>

RECURSIVE ExpectedUpTo(_)
ExpectedUpTo(k) ==
  IF k = 0 THEN <<>> ELSE ExpectedUpTo(k - 1) \o ExpectedOf(k, file.lines[k])

\* the output after the two header lines, an error message reduced to the
\* line number it names
PerLineOutput ==
  Tuple([j \in 1..(Len(output) - Len(Banner)) |->
           LET m == output[j + Len(Banner)]
           IN  IF m.kind = "error" THEN [kind |-> "error", line |-> m.line] ELSE m])

\* C12: for an existing file, while and after batch_process runs, the output
\* after the header is, line by line in file order, nothing for a blank or
\* '#' line, one error message naming the 1-based line number for a line
\* with fewer than 2 fields, an unknown keyword or a non-numeric value, and
\* one result line with the verbose=False answer for every other line; the
\* loop ends only past the last line, and sys.exit(1) is never called.
C12_BatchLines ==
  /\ file.exists => exit # <<1>>
  /\ pc \in {"batch", "done"} =>
       /\ file.exists
       /\ SubSeq(output, 1, Len(Banner)) = Banner
       /\ PerLineOutput = ExpectedUpTo(lineno - 1)
  /\ pc = "done" => lineno = Len(file.lines) + 1

\* a file whose first line is invalid (unknown keyword, no number) and whose
\* second asks for B-V above the table's range, processed to the end: one
\* error for line 1, then one result line and no warning
C12_Witness ==
  /\ pc = "done"
  /\ file.lines = << <<"plot", "abc">>, <<"b-v", "2.5">> >>
  /\ Len(output) = Len(Banner) + 2
  /\ output[Len(Banner) + 1] = ErrorLine(1, "Invalid value")
  /\ output[Len(Banner) + 2].kind = "result"
  /\ output[Len(Banner) + 2].axis = "B_V"
  /\ exit = <<>>

=============================================================================
